---- MODULE Spec2Model ----
(***************************************************************************)
(* Model of yabgp's MP_REACH_NLRI attribute codec                          *)
(* (src/yabgp/message/attribute/mpreachnlri.py): MpReachNLRI.parse and     *)
(* MpReachNLRI.construct.  The codec is stateless; the state of the model  *)
(* is the call in progress: its argument and its outcome.                  *)
(*                                                                         *)
(* Byte strings are sequences over 0..255 (the module is Python 2 code: a   *)
(* str is a byte string, and '' and '\x00' concatenate with packed bytes). *)
(* A Python exception is an outcome "raise" with the exception's class     *)
(* name.                                                                   *)
(***************************************************************************)
EXTENDS Integers, Sequences, FiniteSets, TLC

VARIABLES
    call,       \* "idle" | "parse" | "construct" | "reparse": the call just made
    pvalue,     \* argument of parse (attribute value bytes)
    presult,    \* outcome of parse
    cvalue,     \* argument of construct (the python dictionary)
    cresult     \* outcome of construct

vars == <<call, pvalue, presult, cvalue, cresult>>

(***************************************************************************)
(* Bounds of the model.                                                    *)
(***************************************************************************)
\* longest rule list handed to construct
MaxRules == 2
\* NLRI fields of parse inputs reach the flow-spec threshold plus this many bytes
NlriSlack == 1
\* shortest inputs: 0..MaxShort bytes (fewer than, and up to, a whole header)
MaxShort == 4

(***************************************************************************)
(* Program constants.                                                      *)
(***************************************************************************)
AFNUM_INET == 1
AFNUM_INET6 == 2
SAFNUM_UNICAST == 1
SAFNUM_LAB_VPNUNICAST == 128
SAFNUM_FSPEC_RULE == 133
\* AttributeID.MP_REACH_NLRI, AttributeFlag.OPTIONAL
ID == 14
FLAG == 128
\* "if len(nlri_bin) >= 240"
FSPEC_2BYTE_LEN == 240
nexthop_addrlen == 16

(***************************************************************************)
(* Python and struct primitives.                                           *)
(***************************************************************************)
Min(a, b) == IF a < b THEN a ELSE b

\* s[lo:hi] for 0 <= lo, 0 <= hi: never raises, clamps to the length
PySlice(s, lo, hi) == SubSeq(s, lo + 1, Min(hi, Len(s)))

\* s[lo:]
PySliceFrom(s, lo) == SubSeq(s, lo + 1, Len(s))

\* struct.pack('!H', n), struct.pack('!B', n); both raise struct.error out of range
PackH(n) == <<n \div 256, n % 256>>
PackB(n) == <<n>>
CanPackB(n) == n \in 0..255

\* struct.unpack('!H', b)
UnpackH(b) == b[1] * 256 + b[2]

(***************************************************************************)
(* The address library (netaddr), as the codec uses it.  A textual address *)
(* is [ver, val]: ver 4 with four decimal octets, ver 6 with eight 16-bit  *)
(* groups, ver 0 for text that is no address.                              *)
(***************************************************************************)
\* b left-padded with zero bytes to n bytes (Len(b) <= n)
PadLeft(b, n) == [i \in 1..n |-> IF i <= n - Len(b) THEN 0 ELSE b[i - (n - Len(b))]]

\* int(binascii.b2a_hex(b), 16) fits 32 bits: every byte but the last four is zero
FitsIPv4(b) == \A i \in 1..Len(b) : i <= Len(b) - 4 => b[i] = 0

\* the sixteen bytes of an IPv6 address as eight groups
Groups(b16) == [g \in 1..8 |-> b16[2 * g - 1] * 256 + b16[2 * g]]

\* str(netaddr.IPAddress(int(binascii.b2a_hex(b), 16))) for 1 <= Len(b) <= 16:
\* with no version given, netaddr takes an integer up to 2^32 - 1 as IPv4
IPAddressStr(b) ==
    IF FitsIPv4(b)
    THEN [form |-> "text", ver |-> 4,
          val |-> PadLeft(SubSeq(b, IF Len(b) > 4 THEN Len(b) - 3 ELSE 1, Len(b)), 4)]
    ELSE [form |-> "text", ver |-> 6, val |-> Groups(PadLeft(b, 16))]

\* int('', 16) raises ValueError
HexIntRaises(b) == b = <<>>

\* netaddr.IPAddress(text) raises AddrFormatError
AddrFormatError(text) == text.ver = 0

\* netaddr.IPAddress(text).packed
Packed(text) ==
    IF text.ver = 4 THEN text.val
    ELSE [i \in 1..16 |-> IF i % 2 = 1 THEN text.val[(i + 1) \div 2] \div 256
                                       ELSE text.val[i \div 2] % 256]

(***************************************************************************)
(* The flow-spec NLRI sub-codec (yabgp.message.attribute.nlri.             *)
(* ipv4_flowspec), outside the source at hand: a rule is [type, value],    *)
(* on the wire a type byte, a length byte and the value; the encoded NLRI  *)
(* is the rule bytes behind a length prefix of 1 byte when the whole NLRI  *)
(* stays under 240 bytes and of 2 bytes (0xfnnn) otherwise.                *)
(***************************************************************************)
RuleBytes(rule) == <<rule.type, Len(rule.value)>> \o rule.value

RECURSIVE RulesBytes(_)
RulesBytes(rules) ==
    IF rules = <<>> THEN <<>> ELSE RuleBytes(Head(rules)) \o RulesBytes(Tail(rules))

\* the sub-encoder raises on a rule it cannot pack
FlowSpecConstructRaises(rules) ==
    \E i \in 1..Len(rules) : ~CanPackB(rules[i].type) \/ ~CanPackB(Len(rules[i].value))

LengthPrefix(n) ==
    IF n + 1 < FSPEC_2BYTE_LEN THEN <<n>> ELSE <<240 + n \div 256, n % 256>>

\* IPv4FlowSpec.construct(value=rules)
FlowSpecConstruct(rules) ==
    IF rules = <<>> THEN <<>>
    ELSE LengthPrefix(Len(RulesBytes(rules))) \o RulesBytes(rules)

\* IPv4FlowSpec.parse(b): the rules of b, up to the first one cut short
RECURSIVE FlowSpecParse(_)
FlowSpecParse(b) ==
    IF Len(b) < 2 \/ Len(b) < 2 + b[2] THEN <<>>
    ELSE <<[type |-> b[1], value |-> SubSeq(b, 3, 2 + b[2])]>>
         \o FlowSpecParse(PySliceFrom(b, 2 + b[2]))

\* the other sub-decoders, IPv4MPLSVPN.parse and IPv6Unicast.parse: the
\* decoder's name applied to the bytes it is handed
SubDecoded(decoder, b) == [decoder |-> decoder, arg |-> b, rules |-> <<>>]

\* repr(nlri_bin): the display string of the bytes
ReprNlri(b) == [decoder |-> "repr", arg |-> b, rules |-> <<>>]

(***************************************************************************)
(* Outcomes.                                                               *)
(***************************************************************************)
NoAddr == [form |-> "none", ver |-> 0, val |-> <<>>]
NoNlri == [decoder |-> "none", arg |-> <<>>, rules |-> <<>>]
Raw(b) == [form |-> "raw", ver |-> 0, val |-> b]

NoResult ==
    [outcome |-> "none", exc |-> "none", sub_error |-> "none", data |-> <<>>,
     afi_safi |-> <<0, 0>>, nexthop |-> NoAddr, has_linklocal |-> FALSE,
     linklocal_nexthop |-> NoAddr, nlri |-> NoNlri]

\* raise excep.UpdateMessageError(sub_error=ERR_MSG_UPDATE_ATTR_LEN, data=repr(value))
RaiseAttrLen(value) ==
    [NoResult EXCEPT !.outcome = "raise", !.exc = "UpdateMessageError",
                     !.sub_error = "ERR_MSG_UPDATE_ATTR_LEN", !.data = value]

\* an exception parse does not catch
RaiseUncaught(exc) == [NoResult EXCEPT !.outcome = "raise", !.exc = exc]

\* return dict(afi_safi=(afi, safi), nexthop=..., nlri=...)
ReturnDict(afi, safi, nexthop, nlri) ==
    [NoResult EXCEPT !.outcome = "return", !.afi_safi = <<afi, safi>>,
                     !.nexthop = nexthop, !.nlri = nlri]

\* return dict(afi_safi=(afi, safi), nexthop=..., linklocal_nexthop=..., nlri=...)
ReturnDictLinkLocal(afi, safi, nexthop, linklocal_nexthop, nlri) ==
    [NoResult EXCEPT !.outcome = "return", !.afi_safi = <<afi, safi>>,
                     !.nexthop = nexthop, !.has_linklocal = TRUE,
                     !.linklocal_nexthop = linklocal_nexthop, !.nlri = nlri]

(***************************************************************************)
(* MpReachNLRI.parse                                                       *)
(***************************************************************************)
\* struct.unpack('!HBB', value[0:4]) raises struct.error unless it gets 4 bytes
UnpackRaises(value) == Len(PySlice(value, 0, 4)) # 4

afi_of(value) == UnpackH(SubSeq(value, 1, 2))
safi_of(value) == value[3]
nexthop_length_of(value) == value[4]

\* nexthop_bin = value[4:4 + nexthop_length]
nexthop_bin_of(value) == PySlice(value, 4, 4 + nexthop_length_of(value))


\* the NLRI slice taken without skipping the reserved byte
nlri_bin_of_noreserved(value) == PySliceFrom(value, 4 + nexthop_length_of(value))

\* nlri_bin = value[5 + nexthop_length:]
nlri_bin_of(value) == PySliceFrom(value, 5 + nexthop_length_of(value))


\* the strip with the threshold taken exclusive
StripLengthPrefix_exclusive(nlri_bin) ==
    IF Len(nlri_bin) > FSPEC_2BYTE_LEN THEN PySliceFrom(nlri_bin, 2)
    ELSE PySliceFrom(nlri_bin, 1)

\* the flow-spec branch's strip of the NLRI length prefix
StripLengthPrefix(nlri_bin) ==
    IF Len(nlri_bin) >= FSPEC_2BYTE_LEN THEN PySliceFrom(nlri_bin, 2)
    ELSE PySliceFrom(nlri_bin, 1)

\* nlri = IPv4FlowSpec.parse(nlri_bin), on the stripped bytes
FlowSpecNlri(nlri_bin) ==
    [decoder |-> "IPv4FlowSpec", arg |-> StripLengthPrefix(nlri_bin),
     rules |-> FlowSpecParse(StripLengthPrefix(nlri_bin))]

\* the IPv6 unicast branch
parse_ipv6_unicast(afi, safi, nexthop_bin, nlri_bin) ==
    IF HexIntRaises(PySlice(nexthop_bin, 0, nexthop_addrlen))
    THEN RaiseUncaught("ValueError")
    ELSE LET nexthop == IPAddressStr(PySlice(nexthop_bin, 0, nexthop_addrlen))
             nlri == SubDecoded("IPv6Unicast", nlri_bin)
         IN  IF Len(nexthop_bin) = 2 * nexthop_addrlen
             THEN ReturnDictLinkLocal(afi, safi, nexthop,
                      IPAddressStr(PySliceFrom(nexthop_bin, nexthop_addrlen)), nlri)
             ELSE ReturnDict(afi, safi, nexthop, nlri)

parse(value) ==
    IF UnpackRaises(value) THEN RaiseAttrLen(value)
    ELSE LET afi == afi_of(value)
             safi == safi_of(value)
             nexthop_bin == nexthop_bin_of(value)
             nlri_bin == nlri_bin_of(value)
         IN  IF afi = AFNUM_INET
             THEN IF safi = SAFNUM_LAB_VPNUNICAST
                  THEN ReturnDict(afi, safi, Raw(nexthop_bin),
                                  SubDecoded("IPv4MPLSVPN", nlri_bin))
                  ELSE IF safi = SAFNUM_FSPEC_RULE
                  THEN ReturnDict(afi, safi, Raw(nexthop_bin), FlowSpecNlri(nlri_bin))
                  ELSE ReturnDict(afi, safi, Raw(nexthop_bin), ReprNlri(nlri_bin))
             ELSE IF afi = AFNUM_INET6
             THEN IF safi = SAFNUM_UNICAST
                  THEN parse_ipv6_unicast(afi, safi, nexthop_bin, nlri_bin)
                  \* no branch assigns nlri: the final return reads an unbound local
                  ELSE RaiseUncaught("UnboundLocalError")
             ELSE ReturnDict(afi, safi, Raw(nexthop_bin), ReprNlri(nlri_bin))

(***************************************************************************)
(* MpReachNLRI.construct                                                   *)
(***************************************************************************)
\* the python dictionary handed to construct; has_nexthop: the key is there
Value(afi, safi, has_nexthop, nexthop, nlri) ==
    [afi_safi |-> <<afi, safi>>, has_nexthop |-> has_nexthop,
     nexthop |-> nexthop, nlri |-> nlri]

NoValue == Value(0, 0, FALSE, [ver |-> 0, val |-> <<>>], <<>>)

NoCResult ==
    [outcome |-> "none", exc |-> "none", reason |-> <<>>, data |-> NoValue,
     ret |-> "none", bytes |-> <<>>]

\* raise excep.ConstructAttributeFailed(reason=reason, data=value)
ConstructAttributeFailed(reason, value) ==
    [NoCResult EXCEPT !.outcome = "raise", !.exc = "ConstructAttributeFailed",
                      !.reason = reason, !.data = value]

\* the end of the function body is reached: the call returns None
ReturnNone == [NoCResult EXCEPT !.outcome = "return", !.ret = "None"]

ReturnBytes(b) == [NoCResult EXCEPT !.outcome = "return", !.ret = "bytes", !.bytes = b]


\* the handler letting the exception through as it came
ExceptHandler_reraise(e, value) == [NoCResult EXCEPT !.outcome = "raise", !.exc = e]

\* except Exception as e: raise ConstructAttributeFailed('failed to ...: %s' % e, value)
ExceptHandler(e, value) ==
    ConstructAttributeFailed(<<"failed to construct attributes: %s", e>>, value)

\* the two else branches
UnsupportedFamily(value) ==
    ConstructAttributeFailed(<<"unsupport this sub address family">>, value)

\* the MPLS VPN branch: pass
MplsVpnBranch(value) == ReturnNone

\* try: netaddr.IPAddress(value['nexthop']).packed; except AddrFormatError: ''
NextHopPacked(text) == IF AddrFormatError(text) THEN <<>> ELSE Packed(text)


\* the emptiness test left out: the attribute is assembled around any NLRI
NlriTruthy_always(nlri) == TRUE

\* "if nlri:"
NlriTruthy(nlri) == nlri # <<>>


\* the value assembled without the reserved byte
AttrValue_noreserved(afi, safi, nexthop, nlri) ==
    PackH(afi) \o PackB(safi) \o PackB(Len(nexthop)) \o nexthop \o nlri

\* attr_value = pack('!H', afi) + pack('!B', safi) + pack('!B', len(nexthop))
\*              + nexthop + '\x00' + nlri
AttrValue(afi, safi, nexthop, nlri) ==
    PackH(afi) \o PackB(safi) \o PackB(Len(nexthop)) \o nexthop \o <<0>> \o nlri

\* pack('!B', cls.FLAG) + pack('!B', cls.ID) + pack('!B', len(attr_value)) + attr_value
Assemble(attr_value) ==
    PackB(FLAG) \o PackB(ID) \o PackB(Len(attr_value)) \o attr_value

\* the flow-spec branch
FlowSpecBranch(value) ==
    IF ~value.has_nexthop THEN ExceptHandler("KeyError", value)
    ELSE IF FlowSpecConstructRaises(value.nlri) THEN ExceptHandler("struct.error", value)
    ELSE LET afi == value.afi_safi[1]
             safi == value.afi_safi[2]
             nexthop == NextHopPacked(value.nexthop)
             nlri == FlowSpecConstruct(value.nlri)
         IN  IF NlriTruthy(nlri)
             THEN IF ~CanPackB(Len(AttrValue(afi, safi, nexthop, nlri)))
                  THEN ExceptHandler("struct.error", value)
                  ELSE ReturnBytes(Assemble(AttrValue(afi, safi, nexthop, nlri)))
             ELSE ReturnNone

construct(value) ==
    LET afi == value.afi_safi[1]
        safi == value.afi_safi[2]
    IN  IF afi = AFNUM_INET
        THEN IF safi = SAFNUM_LAB_VPNUNICAST THEN MplsVpnBranch(value)
             ELSE IF safi = SAFNUM_FSPEC_RULE THEN FlowSpecBranch(value)
             ELSE UnsupportedFamily(value)
        ELSE UnsupportedFamily(value)

(***************************************************************************)
(* The inputs the calls are made on.                                       *)
(***************************************************************************)
Afis == {AFNUM_INET, AFNUM_INET6, 25}
Safis == {SAFNUM_UNICAST, 2, SAFNUM_LAB_VPNUNICAST, SAFNUM_FSPEC_RULE}
NextHopLens == {0, 4, nexthop_addrlen, nexthop_addrlen + 1, 2 * nexthop_addrlen}
NlriLens == (0..2) \cup ((FSPEC_2BYTE_LEN - 1)..(FSPEC_2BYTE_LEN + NlriSlack))

\* n bytes: seed 1 counts up; seed 0 opens with two addresses of zero bytes
\* closed by a 1 (::1, ::1) and counts up after them
Fill(n, seed) ==
    [i \in 1..n |-> IF seed = 0 /\ i <= 2 * nexthop_addrlen
                    THEN (IF i % nexthop_addrlen = 0 THEN 1 ELSE 0)
                    ELSE i % 256]

\* the bytes after the 4-byte header: cut inside the next hop, at its end (no
\* reserved byte), or whole with an NLRI field of each length
BodyLens(nhl) ==
    {0, nhl} \cup {nhl + 1 + n : n \in NlriLens} \cup (IF nhl > 0 THEN {nhl - 1} ELSE {})

ParseInputs ==
    {Fill(n, 1) : n \in 0..MaxShort}
    \cup UNION {UNION {UNION {
            {PackH(afi) \o PackB(safi) \o PackB(nhl) \o Fill(k, seed) :
                 k \in BodyLens(nhl), seed \in {0, 1}}
         : nhl \in NextHopLens} : safi \in Safis} : afi \in Afis}

\* rules: a value of each length, and one whose type does not fit a byte
RuleValueLens == {0, 117, 118, 119}
Rules ==
    {[type |-> 1, value |-> Fill(n, 1)] : n \in RuleValueLens}
    \cup {[type |-> 256, value |-> <<>>]}

RuleLists == UNION {[1..n -> Rules] : n \in 0..MaxRules}

NextHops ==
    {[ver |-> 4, val |-> <<10, 0, 0, 1>>],
     [ver |-> 6, val |-> <<8193, 3512, 0, 0, 0, 0, 0, 1>>],
     [ver |-> 0, val |-> <<>>]}

ConstructInputs ==
    {Value(afi, safi, TRUE, nh, rules) :
         afi \in Afis, safi \in Safis, nh \in NextHops, rules \in RuleLists}
    \cup {Value(afi, safi, FALSE, [ver |-> 0, val |-> <<>>], rules) :
         afi \in Afis, safi \in Safis, rules \in RuleLists}

(***************************************************************************)
(* The calls.                                                              *)
(***************************************************************************)
Init ==
    /\ call = "idle"
    /\ pvalue = <<>>
    /\ presult = NoResult
    /\ cvalue = NoValue
    /\ cresult = NoCResult

\* MpReachNLRI.parse(value)
Parse ==
    /\ call = "idle"
    /\ \E value \in ParseInputs :
           /\ pvalue' = value
           /\ presult' = parse(value)
    /\ call' = "parse"
    /\ UNCHANGED <<cvalue, cresult>>

\* MpReachNLRI.construct(value)
Construct ==
    /\ call = "idle"
    /\ \E value \in ConstructInputs :
           /\ cvalue' = value
           /\ cresult' = construct(value)
    /\ call' = "construct"
    /\ UNCHANGED <<pvalue, presult>>

\* parse applied to the value part of the attribute construct returned: the
\* framer has taken off the 3-byte flag/type/length header
Reparse ==
    /\ call = "construct"
    /\ cresult.outcome = "return"
    /\ cresult.ret = "bytes"
    /\ pvalue' = PySliceFrom(cresult.bytes, 3)
    /\ presult' = parse(PySliceFrom(cresult.bytes, 3))
    /\ call' = "reparse"
    /\ UNCHANGED <<cvalue, cresult>>

\* the call is over; the codec keeps nothing of it
Done ==
    /\ call # "idle"
    /\ call' = "idle"
    /\ pvalue' = <<>>
    /\ presult' = NoResult
    /\ cvalue' = NoValue
    /\ cresult' = NoCResult

Next == Parse \/ Construct \/ Reparse \/ Done

Spec == Init /\ [][Next]_vars

(***************************************************************************)
(* Properties.                                                             *)
(***************************************************************************)
Parsing == call \in {"parse", "reparse"}
Constructing == call = "construct"

\* the input holds the 4-byte header
HasHeader == Len(pvalue) >= 4
\* the fields of the wire format, read off the input by offset
WireAfi == pvalue[1] * 256 + pvalue[2]
WireSafi == pvalue[3]
WireNextHopLen == pvalue[4]
\* the input holds every field its header declares
Complete == HasHeader /\ Len(pvalue) >= 4 + WireNextHopLen + 1
WireNextHop == [i \in 1..WireNextHopLen |-> pvalue[4 + i]]
WireNlri == [i \in 1..(Len(pvalue) - 5 - WireNextHopLen) |-> pvalue[5 + WireNextHopLen + i]]

IsAttrLenError ==
    /\ presult.outcome = "raise"
    /\ presult.exc = "UpdateMessageError"
    /\ presult.sub_error = "ERR_MSG_UPDATE_ATTR_LEN"
    /\ presult.data = pvalue

\* the sixteen bytes b[from+1 .. from+16] as an IPv6 address in text
Ipv6Text(b, from) ==
    [form |-> "text", ver |-> 6,
     val |-> [g \in 1..8 |-> b[from + 2 * g - 1] * 256 + b[from + 2 * g]]]

\* C1: parse raises the attribute-length error, carrying the original bytes,
\* whenever the input has fewer than 4 bytes or fewer than 4 + NextHopLen + 1
\* bytes; it never returns a structure built from a shortened slice.
C1_TruncatedRaisesAttrLen ==
    (Parsing /\ ~Complete) => IsAttrLenError

\* C2: an (IPv6, unicast) input whose next-hop field is neither 16 nor 32 bytes
\* long makes parse raise the attribute-length error: no partial decode, no
\* other, untyped error.
C2_Ipv6BadNextHopLenRaisesAttrLen ==
    (/\ Parsing
     /\ Complete
     /\ WireAfi = 2 /\ WireSafi = 1
     /\ WireNextHopLen \notin {16, 32})
    => IsAttrLenError

\* C3: on every (IPv6, unicast) input parse returns a result for, the result
\* has a link-local next hop iff the next-hop field is exactly 32 bytes and
\* none iff it is exactly 16 bytes; the global address decodes bytes [0,16)
\* and the link-local address, when there, bytes [16,32).
C3_Ipv6LinkLocalIff32 ==
    (/\ Parsing
     /\ Complete
     /\ WireAfi = 2 /\ WireSafi = 1
     /\ presult.outcome = "return")
    => /\ presult.has_linklocal <=> WireNextHopLen = 32
       /\ ~presult.has_linklocal <=> WireNextHopLen = 16
       /\ presult.nexthop = Ipv6Text(pvalue, 4)
       /\ presult.has_linklocal => presult.linklocal_nexthop = Ipv6Text(pvalue, 20)

FlowSpecValue ==
    /\ Constructing
    /\ cvalue.afi_safi = <<1, 133>>
    /\ cvalue.has_nexthop
    /\ ~FlowSpecConstructRaises(cvalue.nlri)

\* the packed next hop the attribute is to carry: none when the text is no address
ExpectedNextHop ==
    IF cvalue.nexthop.ver = 0 THEN <<>> ELSE Packed(cvalue.nexthop)

EncodedNlri == FlowSpecConstruct(cvalue.nlri)

\* the number of bytes of the attribute value
ValueLen == 4 + Len(ExpectedNextHop) + 1 + Len(EncodedNlri)

\* C5: for an (IPv4, flow-spec) value with a non-empty encoded NLRI and an
\* attribute value under 256 bytes, construct returns flag, type code 14, the
\* length byte, AFI (2 bytes big-endian), SAFI, next-hop length, next hop,
\* 0x00, NLRI; an address that fails to parse gives next-hop length 0.
C5_ConstructLayout ==
    (FlowSpecValue /\ EncodedNlri # <<>> /\ ValueLen < 256)
    => /\ cresult.outcome = "return"
       /\ cresult.ret = "bytes"
       /\ cresult.bytes = <<128, 14, ValueLen>> \o <<0, 1, 133, Len(ExpectedNextHop)>>
                          \o ExpectedNextHop \o <<0>> \o EncodedNlri

\* an attribute was produced for a next hop that is no address
C5_Witness ==
    /\ FlowSpecValue
    /\ cvalue.nexthop.ver = 0
    /\ cresult.ret = "bytes"
    /\ cresult.bytes[7] = 0
    /\ Len(cresult.bytes) > 8

\* C6: constructing an (IPv4, flow-spec) attribute whose rules encode to an
\* empty NLRI returns no attribute bytes and raises nothing, whatever the
\* supplied next hop.
C6_EmptyNlriNoBytes ==
    (FlowSpecValue /\ EncodedNlri = <<>>)
    => /\ cresult.outcome = "return"
       /\ cresult.ret = "None"
       /\ cresult.bytes = <<>>

\* nothing was produced for an empty rule list and a good next hop
C6_Witness ==
    /\ FlowSpecValue
    /\ cvalue.nlri = <<>>
    /\ cvalue.nexthop.ver = 4
    /\ cresult.ret = "None"

IsConstructError ==
    /\ cresult.outcome = "raise"
    /\ cresult.exc = "ConstructAttributeFailed"
    /\ cresult.reason # <<>>
    /\ cresult.data = cvalue

\* the assembly step raises: the value's length does not fit the length byte
AssemblyRaises == FlowSpecValue /\ EncodedNlri # <<>> /\ ValueLen >= 256

\* C7: construct fails with a construct error carrying a reason and the
\* unchanged input for every family other than (IPv4, flow-spec) and
\* (IPv4, VPN-MPLS), the reason saying the family is unsupported, and for
\* (IPv4, flow-spec) whenever the sub-encoder or the assembly step raises.
C7_ConstructErrors ==
    Constructing
    => /\ cvalue.afi_safi \notin {<<1, 133>>, <<1, 128>>}
          => (IsConstructError
              /\ cresult.reason = <<"unsupport this sub address family">>)
       /\ (cvalue.afi_safi = <<1, 133>>
           /\ (FlowSpecConstructRaises(cvalue.nlri) \/ AssemblyRaises))
          => (IsConstructError
              /\ cresult.reason[1] = "failed to construct attributes: %s")

\* the assembly step raised on a value too long for the length byte
C7_Witness ==
    /\ AssemblyRaises
    /\ IsConstructError
    /\ cresult.reason = <<"failed to construct attributes: %s", "struct.error">>

\* C8: construct on (IPv4, VPN-MPLS) always ends in an explicit not-supported
\* error; it never returns normally with no value.
C8_VpnMplsRaises ==
    (Constructing /\ cvalue.afi_safi = <<1, 128>>)
    => cresult.outcome = "raise"

\* C9: round trip for (IPv4, flow-spec): parse of the value part of what
\* construct returned for a non-empty rule list gives the same (AFI, SAFI),
\* the packed next hop that was encoded, and the same rules in the same order.
C9_FlowSpecRoundTrip ==
    (call = "reparse" /\ cvalue.nlri # <<>>)
    => /\ presult.outcome = "return"
       /\ presult.afi_safi = cvalue.afi_safi
       /\ presult.nexthop = [form |-> "raw", ver |-> 0, val |-> ExpectedNextHop]
       /\ presult.nlri.rules = cvalue.nlri

\* two rules went round behind a 2-byte length prefix
C9_Witness ==
    /\ call = "reparse"
    /\ Len(cvalue.nlri) = 2
    /\ cvalue.nexthop.ver = 4
    /\ Len(WireNlri) > 240
    /\ presult.nlri.rules = cvalue.nlri

\* C10: on every input long enough for its declared fields, every result has
\* next hop and NLRI populated and parse never fails on an undefined one; for
\* every family outside (IPv4, VPN-MPLS), (IPv4, flow-spec), (IPv6, unicast)
\* the next hop is the NextHopLen raw bytes at offset 4 and the NLRI the bytes
\* from offset 5 + NextHopLen.
C10_EveryBranchPopulated ==
    (Parsing /\ Complete)
    => /\ presult.exc # "UnboundLocalError"
       /\ presult.outcome = "return"
          => (presult.nexthop.form # "none" /\ presult.nlri.decoder # "none")
       /\ <<WireAfi, WireSafi>> \notin {<<1, 128>>, <<1, 133>>, <<2, 1>>}
          => /\ presult.outcome = "return"
             /\ presult.nexthop = [form |-> "raw", ver |-> 0, val |-> WireNextHop]
             /\ presult.nlri.arg = WireNlri

====
